---- MODULE Spec2Model ----
(***************************************************************************)
(* The latest-articles pipeline of the LLM TOPIX backend:                  *)
(*   routes/articles.py  ->  services/article_service.py                   *)
(*                       ->  services/formatters.py, utils/date_helpers.py *)
(*                       ->  utils/response_helpers.py                     *)
(* with the application of app.py (URL map, error handlers, teardown) and   *)
(* the request-scoped session of config/database.py.                       *)
(* A Python value that may be None is a sequence of length 0 (None) or 1.  *)
(* A Python str that the code slices or concatenates is a sequence of its  *)
(* pieces; exceptions are records of class, message and, for the           *)
(* ApplicationError family, status_code.                                   *)
(***************************************************************************)
EXTENDS Integers, Sequences, FiniteSets, TLC

VARIABLES
    store,          \* the rows of table articles
    SessionLocal,   \* database.py _SessionLocal: None or the session factory
    engine,         \* database.py _engine: None or the engine, an index into engines
    engines,        \* every engine create_engine made, in order of creation
    appUrl,         \* config['DATABASE_URL'] of the application created last
    via,            \* which entry point ran last: "none", "service", "route", "patched"
    svc,            \* outcome of the last ArticleService.get_latest_articles call
    fetched,        \* rows session.execute returned in that call (None: not reached)
    storageFault,   \* whether the storage layer failed in that call
    warned,         \* whether _check_performance logged its warning in that call
    inner,          \* exception that left the try block of that call (None: none)
    sessionGot,     \* outcome of _get_session in that call (None: not called)
    issued,         \* the calls made on the session in that call, in order
    caught,         \* exception the route's except clauses caught (None: none)
    logged,         \* text the route wrote to current_app.logger.error (None: none)
    resp,           \* (body, status code) the route returned (None: no request yet)
    prev,           \* caught and resp of the request before the last one (None: none)
    truncIn,        \* arguments of the last truncate_summary call (None: none)
    truncOut,       \* its result
    call,           \* function and arguments of the last direct call of another
                    \* helper (None: none)
    result,         \* its result
    req,            \* method and path of the HTTP request the application
                    \* dispatched (None: none)
    g,              \* flask.g of each application context: its 'db' slot
    phase,          \* where the request of each application context stands
    exitPath,       \* how the view of each context left its try block
    sessions,       \* every session the factory made, in order of creation
    got,            \* the sessions get_db returned in each context since the
                    \* context started or close_db last ran in it
    lastCall        \* the last call of get_db or close_db in each context and
                    \* the slot it found (None: no call yet)

\* the helpers called directly
pureVars == <<truncIn, truncOut, call, result>>

\* the application contexts and the sessions made for them
dbVars == <<g, phase, exitPath, sessions, got, lastCall>>

\* the engine of the process and the application it was made for
engineVars == <<engine, engines, appUrl>>

vars == <<store, SessionLocal, engine, engines, appUrl, via, svc, fetched, storageFault,
          warned, inner, sessionGot, issued, caught, logged, resp, prev, truncIn,
          truncOut, call, result, req, g, phase, exitPath, sessions, got,
          lastCall>>

---------------------------------------------------------------------------
(* Python values *)

None == <<>>
Some(v) == <<v>>
IsNone(o) == o = <<>>
Val(o) == o[1]

Min(a, b) == IF a <= b THEN a ELSE b

Range(s) == {s[i] : i \in 1..Len(s)}

\* n copies of character c: the test suite's 'A' * 150
Repeat(c, n) == [i \in 1..n |-> c]

---------------------------------------------------------------------------
(* config/constants.py *)

PERFORMANCE_THRESHOLD_MS == 50
SUMMARY_MAX_LENGTH == 100
SUMMARY_TRUNCATE_SUFFIX == <<".", ".", ".">>
ERROR_CODE_DATABASE_UNAVAILABLE == "DATABASE_UNAVAILABLE"
ERROR_CODE_RESOURCE_NOT_FOUND == "RESOURCE_NOT_FOUND"
ERROR_CODE_METHOD_NOT_ALLOWED == "METHOD_NOT_ALLOWED"
TESTING_ENV == "testing"
DEVELOPMENT_ENV == "development"
ERROR_CODE_INTERNAL_SERVER_ERROR == "INTERNAL_SERVER_ERROR"

\* article_service.py: .limit(5)
FetchLimit == 5

---------------------------------------------------------------------------
(* exceptions.py: the ApplicationError family, and the classes outside it  *)

ApplicationError(message, status_code) ==
    [class |-> "ApplicationError", message |-> message, status_code |-> status_code]

DatabaseError(message) ==
    [class |-> "DatabaseError", message |-> message, status_code |-> 503]

ValidationError(message) ==
    [class |-> "ValidationError", message |-> message, status_code |-> 400]

NotFoundError(message) ==
    [class |-> "NotFoundError", message |-> message, status_code |-> 404]

\* an exception of a class defined outside exceptions.py: no status_code
Foreign(class, message) == [class |-> class, message |-> message]

\* isinstance(e, ApplicationError)
IsApplicationError(e) ==
    e.class \in {"ApplicationError", "DatabaseError", "ValidationError", "NotFoundError"}

\* isinstance(e, DatabaseError)
IsDatabaseError(e) == e.class = "DatabaseError"

\* isinstance(e, SQLAlchemyError): the base class and its subclasses
IsSQLAlchemyError(e) == e.class \in {"SQLAlchemyError", "OperationalError"}

\* the outcome of a call: a returned value or a raised exception
Return(v) == [kind |-> "return", value |-> v]
Raise(e) == [kind |-> "raise", exc |-> e]
Returned(o) == o # None /\ o.kind = "return"
Raised(o) == o # None /\ o.kind = "raise"

---------------------------------------------------------------------------
(* datetime: wall is the wall-clock reading in whole seconds, us the        *)
(* microsecond field, tz None for a naive value or Some(utcoffset seconds)  *)

Datetime(wall, us, tz) == [wall |-> wall, us |-> us, tz |-> tz]

\* datetime.isoformat(): seconds, then the fraction only when microsecond
\* is not 0, then the offset only when the value is aware ("" when naive).
\* The str is kept as its three parts.
IsoFormat(dt) ==
    [secs |-> dt.wall,
     frac |-> IF dt.us = 0 THEN None ELSE Some(dt.us),
     zone |-> IF IsNone(dt.tz) THEN ""
              ELSE IF Val(dt.tz) = 0 THEN "+00:00"
              ELSE "+hh:mm"]

\* str.replace('+00:00', 'Z')
ReplaceUtcOffset(iso) ==
    [iso EXCEPT !.zone = IF iso.zone = "+00:00" THEN "Z" ELSE iso.zone]

\* format_datetime_to_utc_iso8601 with replace(tzinfo=utc) on every value,
\* aware ones included
format_datetime_to_utc_iso8601_ReplaceOnly(dt) ==
    IF IsNone(dt) THEN None
    ELSE LET d == Val(dt)
         IN Some(ReplaceUtcOffset(IsoFormat(Datetime(d.wall, d.us, Some(0)))))

\* date_helpers.py format_datetime_to_utc_iso8601 (dt: None or Some(datetime))
format_datetime_to_utc_iso8601(dt) ==
    IF IsNone(dt) THEN None
    ELSE LET d == Val(dt)
             dt_utc == IF IsNone(d.tz)
                       THEN Datetime(d.wall, d.us, Some(0))
                       ELSE Datetime(d.wall - Val(d.tz), d.us, Some(0))
         IN Some(ReplaceUtcOffset(IsoFormat(dt_utc)))

---------------------------------------------------------------------------
(* services/formatters.py *)

\* Python's s[:n]
SliceTo(s, n) ==
    IF n >= 0 THEN SubSeq(s, 1, Min(n, Len(s)))
    ELSE SubSeq(s, 1, IF Len(s) + n > 0 THEN Len(s) + n ELSE 0)

\* truncate_summary without the guard for None: str(None) is cut instead
truncate_summary_NoneAsText(summary, max_length) ==
    LET text == IF IsNone(summary) THEN <<"N", "o", "n", "e">> ELSE Val(summary)
    IN IF Len(text) <= max_length THEN text
       ELSE SliceTo(text, max_length) \o SUMMARY_TRUNCATE_SUFFIX

\* truncate_summary keeping the last max_length characters
truncate_summary_KeepTail(summary, max_length) ==
    IF IsNone(summary) THEN <<>>
    ELSE IF Len(Val(summary)) <= max_length THEN Val(summary)
    ELSE SubSeq(Val(summary), Len(Val(summary)) - max_length + 1, Len(Val(summary)))
         \o SUMMARY_TRUNCATE_SUFFIX

\* truncate_summary keeping the result within max_length, suffix included
truncate_summary_CutInside(summary, max_length) ==
    IF IsNone(summary) THEN <<>>
    ELSE IF Len(Val(summary)) <= max_length THEN Val(summary)
    ELSE SliceTo(Val(summary), max_length - 3) \o SUMMARY_TRUNCATE_SUFFIX

truncate_summary_Strict(summary, max_length) ==
    IF IsNone(summary) THEN <<>>
    ELSE IF Len(Val(summary)) < max_length THEN Val(summary)
    ELSE SliceTo(Val(summary), max_length) \o SUMMARY_TRUNCATE_SUFFIX

\* ArticleFormatter.truncate_summary (summary: None or Some(str))
truncate_summary(summary, max_length) ==
    IF IsNone(summary) THEN <<>>
    ELSE IF Len(Val(summary)) <= max_length THEN Val(summary)
    ELSE SliceTo(Val(summary), max_length) \o SUMMARY_TRUNCATE_SUFFIX

\* raise ValueError(message)
ValueError(message) == [class |-> "ValueError", message |-> message]

\* ArticleFormatter.format_article_for_api
format_article_for_api(article) ==
    IF IsNone(article.id)
    THEN Raise(ValueError(<<"Article ID cannot be None for API formatting">>))
    ELSE IF IsNone(article.title)
    THEN Raise(ValueError(<<"Article title cannot be None for API formatting">>))
    ELSE IF IsNone(article.published_at)
    THEN Raise(ValueError(<<"Article published_at cannot be None for API formatting">>))
    ELSE IF IsNone(article.source_url)
    THEN Raise(ValueError(<<"Article source_url cannot be None for API formatting">>))
    ELSE Return([id |-> article.id,
                 title |-> article.title,
                 summary_truncated |-> truncate_summary(article.summary, SUMMARY_MAX_LENGTH),
                 published_at |-> article.published_at,
                 source_url |-> article.source_url])

\* format_articles_list giving the formatted rows last first
RECURSIVE format_articles_list_Reversed(_)
format_articles_list_Reversed(articles) ==
    IF articles = <<>> THEN Return(<<>>)
    ELSE LET h == format_article_for_api(Head(articles))
         IN IF Raised(h) THEN h
            ELSE LET t == format_articles_list_Reversed(Tail(articles))
                 IN IF Raised(t) THEN t
                    ELSE Return(t.value \o <<h.value>>)

\* format_articles_list leaving out the rows whose formatting raises
RECURSIVE format_articles_list_SkipInvalid(_)
format_articles_list_SkipInvalid(articles) ==
    IF articles = <<>> THEN Return(<<>>)
    ELSE LET h == format_article_for_api(Head(articles))
             t == format_articles_list_SkipInvalid(Tail(articles))
         IN IF Raised(h) THEN t ELSE Return(<<h.value>> \o t.value)

\* ArticleFormatter.format_articles_list: the comprehension stops at the
\* first row whose formatting raises
RECURSIVE format_articles_list(_)
format_articles_list(articles) ==
    IF articles = <<>> THEN Return(<<>>)
    ELSE LET h == format_article_for_api(Head(articles))
         IN IF Raised(h) THEN h
            ELSE LET t == format_articles_list(Tail(articles))
                 IN IF Raised(t) THEN t
                    ELSE Return(<<h.value>> \o t.value)

---------------------------------------------------------------------------
(* The articles table and the query of _fetch_articles_from_database       *)

\* a row of table articles, as the query selects it (models/article.py)
Row(id, title, summary, published_at, source_url) ==
    [id |-> id, title |-> title, summary |-> summary,
     published_at |-> published_at, source_url |-> source_url]

\* the column is DateTime without time zone: values compare by wall clock,
\* then microsecond
DatetimeGeq(a, b) == a.wall > b.wall \/ (a.wall = b.wall /\ a.us >= b.us)

\* ORDER BY published_at DESC: whether p may come before q. The store is
\* PostgreSQL (constants.py build_database_url), where NULL sorts as larger
\* than every value, so first under DESC.
SortsBeforeDesc(p, q) ==
    IsNone(p) \/ (~IsNone(q) /\ DatetimeGeq(Val(p), Val(q)))

\* FirstRows without the ORDER BY: any row may come first
FirstRows_Unordered(S) == S

\* the rows that may come first under ORDER BY published_at DESC
FirstRows(S) ==
    {r \in S : \A q \in S : SortsBeforeDesc(r.published_at, q.published_at)}

\* every result the database may give for
\*   SELECT ... ORDER BY published_at DESC LIMIT k
\* over the rows S: rows with equal published_at come in any order
RECURSIVE OrderByLimit(_, _)
OrderByLimit(S, k) ==
    IF k = 0 \/ S = {} THEN {<<>>}
    ELSE UNION {{<<r>> \o t : t \in OrderByLimit(S \ {r}, k - 1)} : r \in FirstRows(S)}

\* the statement with LIMIT 4
LatestQuery_LimitFour(S) == OrderByLimit(S, FetchLimit - 1)

\* the statement of _fetch_articles_from_database run over the table
LatestQuery(S) == OrderByLimit(S, FetchLimit)

---------------------------------------------------------------------------
(* config/database.py *)

\* get_db() in a fresh request context: a new session from the factory, or
\* RuntimeError when init_db has not run
get_db(factory) ==
    IF IsNone(factory)
    THEN Raise(Foreign("RuntimeError", <<"Database not initialized. Call init_db() first.">>))
    ELSE Return("session")

\* get_database_url() and get_test_database_url() with the environment
\* variables DATABASE_URL and TEST_DATABASE_URL unset: build_database_url of
\* the development and of the test database, named here by the database
DevUrl == "llm_topix_dev"
TestUrl == "llm_topix_test"

\* create_engine(database_url, ...): an engine, disposed once dispose() ran
NewEngine(url) == [url |-> url, disposed |-> FALSE]

\* sessionmaker(..., bind=_engine): the factory remembers the engine it was
\* given, an index into the engines made so far
SessionMaker(bind) == [bind |-> bind]

\* init_db that makes engine and factory anew on every call
init_db_Rebuild(eng, factory, made, url) ==
    [engine |-> Some(Len(made) + 1),
     engines |-> Append(made, NewEngine(url)),
     SessionLocal |-> Some(SessionMaker(Len(made) + 1))]

\* init_db(app): url is app.config.get('DATABASE_URL') or get_database_url();
\* eng and factory are _engine and _SessionLocal, made the engines made so
\* far. Each global is made only if it is None.
init_db(eng, factory, made, url) ==
    LET e == IF IsNone(eng) THEN Some(Len(made) + 1) ELSE eng
    IN [engine |-> e,
        engines |-> IF IsNone(eng) THEN Append(made, NewEngine(url)) ELSE made,
        SessionLocal |-> IF IsNone(factory) THEN Some(SessionMaker(Val(e)))
                         ELSE factory]

\* dispose_db that clears the session factory with the engine
dispose_db_ClearFactory(eng, factory, made) ==
    IF IsNone(eng) THEN [engine |-> eng, engines |-> made, SessionLocal |-> factory]
    ELSE [engine |-> None,
          engines |-> [made EXCEPT ![Val(eng)].disposed = TRUE],
          SessionLocal |-> None]

\* dispose_db(): _engine.dispose() and _engine = None when there is an
\* engine; _SessionLocal is not assigned
dispose_db(eng, factory, made) ==
    IF IsNone(eng) THEN [engine |-> eng, engines |-> made, SessionLocal |-> factory]
    ELSE [engine |-> None,
          engines |-> [made EXCEPT ![Val(eng)].disposed = TRUE],
          SessionLocal |-> factory]

\* a session the factory made: ctx is the application context it was made
\* in, bind the engine of its factory, closed whether Session.close() has
\* run on it and closes how often
NewSession(ctx, bind) == [ctx |-> ctx, bind |-> bind, closed |-> FALSE, closes |-> 0]

\* get_db that initialises the module when init_db has not run
get_db_in_context_LazyInit(slot, factory, fresh) ==
    IF ~IsNone(slot)
    THEN [slot |-> slot, outcome |-> Return(Val(slot)), factory |-> factory]
    ELSE [slot |-> Some(fresh), outcome |-> Return(fresh),
          factory |-> IF IsNone(factory) THEN Some(SessionMaker(0)) ELSE factory]

\* get_db that asks the factory for a session on every call
get_db_in_context_AlwaysNew(slot, factory, fresh) ==
    IF IsNone(factory)
    THEN [slot |-> slot,
          outcome |-> Raise(Foreign("RuntimeError",
                                    <<"Database not initialized. Call init_db() first.">>)),
          factory |-> factory]
    ELSE [slot |-> Some(fresh), outcome |-> Return(fresh), factory |-> factory]

\* get_db() in an application context whose g holds slot under 'db'; fresh
\* names the session _SessionLocal() makes if it is called. The result is
\* the slot afterwards, the outcome of the call and _SessionLocal afterwards.
get_db_in_context(slot, factory, fresh) ==
    IF ~IsNone(slot)
    THEN [slot |-> slot, outcome |-> Return(Val(slot)), factory |-> factory]
    ELSE IF IsNone(factory)
    THEN [slot |-> None,
          outcome |-> Raise(Foreign("RuntimeError",
                                    <<"Database not initialized. Call init_db() first.">>)),
          factory |-> factory]
    ELSE [slot |-> Some(fresh), outcome |-> Return(fresh), factory |-> factory]

\* close() on session i of made
CloseSession(made, i) ==
    [made EXCEPT ![i] = [@ EXCEPT !.closed = TRUE, !.closes = @ + 1]]

\* close_db that pops the slot and leaves the session open
close_db_PopOnly(slot, made) == [slot |-> None, sessions |-> made]

\* close_db that closes the session and leaves it in the slot
close_db_KeepSlot(slot, made) ==
    [slot |-> slot,
     sessions |-> IF IsNone(slot) THEN made ELSE CloseSession(made, Val(slot))]

\* close_db(): g.pop('db', None), then close() on what was popped; made is
\* the sessions made so far, a slot holding an index into it
close_db(slot, made) ==
    [slot |-> None,
     sessions |-> IF IsNone(slot) THEN made ELSE CloseSession(made, Val(slot))]

---------------------------------------------------------------------------
(* services/article_service.py *)

\* ArticleService._get_session: db_session is the injected session (None or
\* Some), factory the module's _SessionLocal that get_db would use
get_session(db_session, factory) ==
    IF ~IsNone(db_session) THEN Return(Val(db_session))
    ELSE LET s == get_db(factory)
         IN IF Raised(s)
            THEN Raise(DatabaseError(<<"Unable to get database session: ">> \o s.exc.message))
            ELSE s

\* ArticleService._fetch_articles_from_database: executed is the outcome of
\* session.execute(stmt).fetchall(), the rows or the exception it raises
fetch_articles_from_database(db_session, factory, executed) ==
    LET session == get_session(db_session, factory)
    IN IF Raised(session) THEN session ELSE executed

\* ArticleService._check_performance: whether the warning is logged
check_performance(execution_time_ms) == execution_time_ms > PERFORMANCE_THRESHOLD_MS

\* the statement _fetch_articles_from_database builds (lines 91-95)
LatestStatement ==
    [verb |-> "select", table |-> "articles",
     order_by |-> <<"published_at", "desc">>, limit |-> FetchLimit]

\* the session calls with the statement executed again after a failure
SessionCalls_RetryOnce(db_session, factory, executed) ==
    IF Raised(get_session(db_session, factory)) THEN <<>>
    ELSE IF Raised(executed)
    THEN <<[method |-> "execute", stmt |-> LatestStatement],
           [method |-> "execute", stmt |-> LatestStatement]>>
    ELSE <<[method |-> "execute", stmt |-> LatestStatement]>>

\* the calls _fetch_articles_from_database makes on the session: one
\* execute of the statement once _get_session has returned, whatever the
\* execute does; nothing else in the service touches the session
SessionCalls(db_session, factory, executed) ==
    IF Raised(get_session(db_session, factory)) THEN <<>>
    ELSE <<[method |-> "execute", stmt |-> LatestStatement]>>

\* _check_performance raising when the threshold is exceeded
check_performance_call_RaiseWhenSlow(execution_time_ms) ==
    IF execution_time_ms > PERFORMANCE_THRESHOLD_MS
    THEN Raise(Foreign("TimeoutError", <<"threshold exceeded">>))
    ELSE Return(None)

\* the call self._check_performance(start_time) (line 58): it warns or not
\* and returns None
check_performance_call(execution_time_ms) == Return(None)

\* the try block of get_latest_articles (lines 56-60)
TryBlock(db_session, factory, executed, elapsed) ==
    LET articles == fetch_articles_from_database(db_session, factory, executed)
    IN IF Raised(articles) THEN articles
       ELSE LET formatted_articles == format_articles_list(articles.value)
            IN IF Raised(formatted_articles) THEN formatted_articles
               ELSE LET checked == check_performance_call(elapsed)
                    IN IF Raised(checked) THEN checked ELSE formatted_articles

\* the except clauses without str(e) in the messages
ExceptClauses_NoText(e) ==
    IF IsSQLAlchemyError(e)
    THEN Raise(DatabaseError(<<"Database query failed">>))
    ELSE Raise(ApplicationError(<<"Unexpected error in get_latest_articles">>, 500))

\* the except clauses of get_latest_articles (lines 62-65), applied to the
\* exception e that left the try block
ExceptClauses(e) ==
    IF IsSQLAlchemyError(e)
    THEN Raise(DatabaseError(<<"Database query failed: ">> \o e.message))
    ELSE Raise(ApplicationError(<<"Unexpected error in get_latest_articles: ">> \o e.message, 500))

\* ArticleService.get_latest_articles
get_latest_articles(db_session, factory, executed, elapsed) ==
    LET r == TryBlock(db_session, factory, executed, elapsed)
    IN IF Raised(r) THEN ExceptClauses(r.exc) ELSE r

---------------------------------------------------------------------------
(* utils/response_helpers.py; a dict of details is a set of <<key, value>>  *)

\* Python truthiness of an optional dict: None and {} are falsy
Truthy(details) == ~IsNone(details) /\ Val(details) # {}

\* datetime.utcnow().isoformat() + "Z"
UtcNowStamp(dt) == [IsoFormat(dt) EXCEPT !.zone = @ \o "Z"]

\* create_error_response, with jsonify's body kept as the dict; utcnow is
\* the reading datetime.utcnow() gives during the call
create_error_response(error_code, message, status_code, details, utcnow) ==
    [body |-> [status |-> "error",
               error |-> [code |-> error_code,
                          message |-> message,
                          details |-> IF Truthy(details) THEN Val(details)
                                      ELSE {<<"timestamp", UtcNowStamp(utcnow)>>}]],
     status_code |-> status_code]

\* create_success_response (message: None or Some(str))
create_success_response(data, status_code, message) ==
    [body |-> IF ~IsNone(message) /\ Val(message) # <<>>
              THEN [status |-> "success", data |-> data, message |-> Val(message)]
              ELSE [status |-> "success", data |-> data],
     status_code |-> status_code]

\* create_not_found_response(resource)
create_not_found_response(resource, utcnow) ==
    create_error_response(ERROR_CODE_RESOURCE_NOT_FOUND,
        <<"The requested ", resource, " was not found">>, 404, None, utcnow)

\* create_internal_error_response()
create_internal_error_response(utcnow) ==
    create_error_response(ERROR_CODE_INTERNAL_SERVER_ERROR,
        <<"An unexpected error occurred">>, 500, None, utcnow)

---------------------------------------------------------------------------
(* routes/articles.py *)

\* _format_articles_for_response with published_at.isoformat() alone
format_articles_for_response_IsoOnly(articles) ==
    [i \in 1..Len(articles) |->
        IF ~IsNone(articles[i].published_at)
        THEN [articles[i] EXCEPT !.published_at = Some(IsoFormat(Val(@)))]
        ELSE articles[i]]

\* _format_articles_for_response
format_articles_for_response(articles) ==
    [i \in 1..Len(articles) |->
        IF ~IsNone(articles[i].published_at)
        THEN [articles[i] EXCEPT !.published_at = format_datetime_to_utc_iso8601(@)]
        ELSE articles[i]]

\* the payload with the count fixed at the query's limit
SuccessPayload_FixedCount(formatted_articles) ==
    [articles |-> formatted_articles, count |-> FetchLimit]

\* the dict the view hands to create_success_response (lines 82-85)
SuccessPayload(formatted_articles) ==
    [articles |-> formatted_articles, count |-> Len(formatted_articles)]

\* the try block of the view get_latest_articles (lines 74-85): db is the
\* outcome of get_db(), served that of article_service.get_latest_articles()
ViewTry(db, served) ==
    IF Raised(db) THEN db
    ELSE IF Raised(served) THEN served
    ELSE Return(create_success_response(
                    SuccessPayload(format_articles_for_response(served.value)), 200, None))

\* except DatabaseError (lines 87-93)
OnDatabaseError(e, utcnow) ==
    create_error_response(ERROR_CODE_DATABASE_UNAVAILABLE,
        <<"Database service is temporarily unavailable. Please try again later.">>,
        503, None, utcnow)

\* the status of the except ApplicationError clause fixed at 500
StatusCodeOf_Always500(e) == 500

\* getattr(e, 'status_code', 500)
StatusCodeOf(e) == IF "status_code" \in DOMAIN e THEN e.status_code ELSE 500

\* the except ApplicationError clause answering with the exception's message
OnApplicationError_Leak(e, utcnow) ==
    create_error_response(ERROR_CODE_INTERNAL_SERVER_ERROR,
        e.message, e.status_code, None, utcnow)

\* except ApplicationError (lines 95-101)
OnApplicationError(e, utcnow) ==
    create_error_response(ERROR_CODE_INTERNAL_SERVER_ERROR,
        <<"An unexpected error occurred">>, StatusCodeOf(e), None, utcnow)

\* except Exception (lines 103-109)
OnException(e, utcnow) ==
    create_error_response(ERROR_CODE_INTERNAL_SERVER_ERROR,
        <<"An unexpected error occurred">>, 500, None, utcnow)

\* the except clauses with ApplicationError tested before DatabaseError
ViewExcept_ApplicationFirst(e, utcnow) ==
    IF IsApplicationError(e) THEN OnApplicationError(e, utcnow)
    ELSE IF IsDatabaseError(e) THEN OnDatabaseError(e, utcnow)
    ELSE OnException(e, utcnow)

\* the except clauses of the view, in their order
ViewExcept(e, utcnow) ==
    IF IsDatabaseError(e) THEN OnDatabaseError(e, utcnow)
    ELSE IF IsApplicationError(e) THEN OnApplicationError(e, utcnow)
    ELSE OnException(e, utcnow)

\* what the except clauses write to current_app.logger.error
ViewLog(e) ==
    IF IsDatabaseError(e) THEN <<"Database error in get_latest_articles: ">> \o e.message
    ELSE IF IsApplicationError(e) THEN <<"Application error in get_latest_articles: ">> \o e.message
    ELSE <<"Unexpected error in get_latest_articles: ">> \o e.message

\* the view get_latest_articles: the response it returns
latest_articles_view(db, served, utcnow) ==
    LET r == ViewTry(db, served)
    IN IF Raised(r) THEN ViewExcept(r.exc, utcnow) ELSE r.value

---------------------------------------------------------------------------
(* The error handlers of routes/articles.py and create_app of app.py: the   *)
(* URL map, the registered error handlers and the way the framework picks   *)
(* among them. A path is the sequence of its segments.                      *)

\* @articles_bp.errorhandler(404)
not_found_error(utcnow) ==
    create_error_response(ERROR_CODE_RESOURCE_NOT_FOUND,
        <<"The requested article endpoint does not exist">>, 404, None, utcnow)

\* @articles_bp.errorhandler(405)
method_not_allowed_error(utcnow) ==
    create_error_response(ERROR_CODE_METHOD_NOT_ALLOWED,
        <<"This HTTP method is not allowed for this endpoint">>, 405, None, utcnow)

\* the view health_check
health_check ==
    [body |-> [status |-> "healthy", service |-> "llm-topix-backend"],
     status_code |-> 200]

\* the methods of a rule registered for GET: the framework adds HEAD and
\* OPTIONS
GetMethods == {"GET", "HEAD", "OPTIONS"}

\* the rules: '/latest' under the blueprint's url_prefix '/api/articles',
\* and '/health' of the application
UrlMap ==
    { [rule |-> <<"api", "articles", "latest">>, methods |-> GetMethods,
       endpoint |-> "articles.get_latest_articles", blueprint |-> Some("articles")],
      [rule |-> <<"health">>, methods |-> GetMethods,
       endpoint |-> "health_check", blueprint |-> None] }

\* URL matching: the rule found, or the HTTP error that routing raises
\* (405 when a rule has the path but not the method, 404 when none has it)
MatchRequest(method, path) ==
    LET onPath == {r \in UrlMap : r.rule = path}
        onBoth == {r \in onPath : method \in r.methods}
    IN IF onBoth # {} THEN [kind |-> "rule", rule |-> CHOOSE r \in onBoth : TRUE]
       ELSE IF onPath # {} THEN [kind |-> "abort", code |-> 405]
       ELSE [kind |-> "abort", code |-> 404]

\* the registered error handlers without the application's one for 404
ErrorHandlers_BlueprintOnly ==
    { [scope |-> Some("articles"), code |-> 404, handler |-> "not_found_error"],
      [scope |-> Some("articles"), code |-> 405, handler |-> "method_not_allowed_error"],
      [scope |-> None, code |-> 500, handler |-> "internal_error"] }

\* the registered error handlers: scope is the blueprint a handler was
\* registered on, None for the application
ErrorHandlers ==
    { [scope |-> Some("articles"), code |-> 404, handler |-> "not_found_error"],
      [scope |-> Some("articles"), code |-> 405, handler |-> "method_not_allowed_error"],
      [scope |-> None, code |-> 404, handler |-> "not_found"],
      [scope |-> None, code |-> 500, handler |-> "internal_error"] }

\* the handler the framework picks for an HTTP error of the given code:
\* the one of the blueprint the request belongs to, else the application's.
\* blueprint is None when the error was raised by routing, since no rule and
\* so no blueprint is bound to the request then.
FindErrorHandler(code, blueprint) ==
    LET ofBlueprint == {h \in ErrorHandlers :
                            ~IsNone(blueprint) /\ h.scope = blueprint /\ h.code = code}
        ofApp == {h \in ErrorHandlers : IsNone(h.scope) /\ h.code = code}
    IN IF ofBlueprint # {} THEN Some((CHOOSE h \in ofBlueprint : TRUE).handler)
       ELSE IF ofApp # {} THEN Some((CHOOSE h \in ofApp : TRUE).handler)
       ELSE None

\* the response of a registered error handler
RunErrorHandler(handler, utcnow) ==
    CASE handler = "not_found_error" -> not_found_error(utcnow)
      [] handler = "method_not_allowed_error" -> method_not_allowed_error(utcnow)
      [] handler = "not_found" -> create_not_found_response("resource", utcnow)
      [] handler = "internal_error" -> create_internal_error_response(utcnow)

\* the response to an HTTP error that no handler is registered for: the
\* framework's own HTML page, with the error's status
DefaultErrorPage(code) == [body |-> [html |-> code], status_code |-> code]

\* the response to an HTTP error raised while dispatching a request
HandleHttpException(code, blueprint, utcnow) ==
    LET h == FindErrorHandler(code, blueprint)
    IN IF IsNone(h) THEN DefaultErrorPage(code) ELSE RunErrorHandler(Val(h), utcnow)

---------------------------------------------------------------------------
(* Bounds and inputs *)

\* rows in the table
MaxArticles == 6
\* readings of the clock datetime.utcnow()
MaxNow == 1
\* length of the texts given to truncate_summary
MaxLen == 4
\* length of the lists given to format_articles_list
MaxRows == 2
\* application contexts alive at once
MaxContexts == 2
\* sessions the factory makes
MaxSessions == 3
\* engines create_engine makes
MaxEngines == 3

\* the config_name given to create_app
ConfigNames == {TESTING_ENV, DEVELOPMENT_ENV}

Microseconds == {0, 250000}

\* the readings datetime.utcnow() may give: naive values
Clock == {Datetime(n, u, None) : n \in 1..MaxNow, u \in Microseconds}

\* a naive published_at
At(wall, us) == Some(Datetime(wall, us, None))

\* Rows the table may hold. Ids are unique; published_at has ties (wall 3
\* and wall 1), a pair differing only in microseconds (wall 2) and summaries
\* on both sides of SUMMARY_MAX_LENGTH, one short summary ending in three
\* dots of its own (id 11). The four rows after the first six break the
\* integrity guard of format_article_for_api, at different places of the
\* order.
Catalogue ==
    { Row(Some(4), Some("t4"), Some(Repeat("A", 150)), At(3, 0), Some("https://e/4")),
      Row(Some(1), Some("t1"), None,                   At(3, 0), Some("https://e/1")),
      Row(Some(6), Some("t6"), Some(Repeat("B", 100)), At(2, 250000), Some("https://e/6")),
      Row(Some(2), Some("t2"), Some(<<"a", "b", "c">>), At(2, 0), Some("https://e/2")),
      Row(Some(5), Some("t5"), Some(Repeat("C", 101)), At(1, 0), Some("https://e/5")),
      Row(Some(3), Some("t3"), Some(<<>>),             At(1, 0), Some("https://e/3")),
      Row(None,    Some("t7"), Some(<<"x">>),          At(4, 0), Some("https://e/7")),
      Row(Some(8), None,       Some(<<"x">>),          At(2, 0), None),
      Row(Some(9), Some("t9"), Some(<<"x">>),          None,     Some("https://e/9")),
      Row(Some(10), Some("t10"), Some(<<"x">>),        At(0, 0), None),
      Row(Some(11), Some("t11"), Some(<<"a", ".", ".", ".">>), At(0, 250000),
          Some("https://e/11")) }

\* the tables considered
Stores == {S \in SUBSET Catalogue : Cardinality(S) <= MaxArticles}

\* texts of the exceptions raised by the storage layer or by a patched service
Texts == {<<"connection refused">>, <<"statement timeout">>}

\* what session.execute may raise: SQLAlchemyError, a subclass of it, and an
\* exception of another family
ExecuteFaults ==
    {Foreign(c, m) : c \in {"SQLAlchemyError", "OperationalError", "OSError"}, m \in Texts}

\* every outcome of session.execute(stmt).fetchall() over the table S
Executions(S) ==
    {Return(rows) : rows \in LatestQuery(S)} \cup {Raise(e) : e \in ExecuteFaults}

\* the exceptions the endpoint tests make the patched service raise
\* (mock_service.side_effect)
PatchedErrors ==
    UNION {{DatabaseError(m), ApplicationError(m, 500), ApplicationError(m, 409),
            ValidationError(m), NotFoundError(m), Foreign("KeyError", m)} : m \in Texts}

\* elapsed times of a call, on both sides of the threshold
Elapsed == {PERFORMANCE_THRESHOLD_MS, PERFORMANCE_THRESHOLD_MS + 1}

\* the texts given to truncate_summary: every text over two characters up to
\* MaxLen, and texts around SUMMARY_MAX_LENGTH
ShortTexts == UNION {[1..n -> {"a", "."}] : n \in 0..MaxLen}
LongTexts == {Repeat("A", n) : n \in {SUMMARY_MAX_LENGTH - 1, SUMMARY_MAX_LENGTH,
                                      SUMMARY_MAX_LENGTH + 1, SUMMARY_MAX_LENGTH + 50}}
TruncateArgs ==
    {<<Some(t), m>> : t \in ShortTexts, m \in 0..(MaxLen + 1)}
    \cup {<<Some(t), SUMMARY_MAX_LENGTH>> : t \in ShortTexts \cup LongTexts}
    \cup {<<None, m>> : m \in {0, SUMMARY_MAX_LENGTH}}

\* the lists given to format_articles_list: rows in any order, repeated or
\* not, valid or not
RowLists == UNION {[1..n -> Catalogue] : n \in 0..MaxRows}

\* the values given to format_datetime_to_utc_iso8601: None, and wall-clock
\* readings (00:00:00, 12:30:00 and 15:30:00 as seconds of one day) with and
\* without microseconds, naive or at UTC, UTC+3 and UTC-5
Walls == {0, 45000, 55800}
Offsets == {0, 10800, -18000}
Timestamps ==
    {None} \cup {Some(Datetime(w, u, tz)) :
                    w \in Walls, u \in Microseconds,
                    tz \in {None} \cup {Some(d) : d \in Offsets}}

\* the details given to create_error_response: left out, an empty dict and
\* dicts of one and two entries
DetailsArgs ==
    { None, Some({}), Some({<<"field", "title">>}),
      Some({<<"field", "title">>, <<"reason", "missing">>}) }

\* the calls of create_error_response
ErrorResponseArgs ==
    {<<c[1], m, c[2], d>> :
        c \in {<<ERROR_CODE_RESOURCE_NOT_FOUND, 404>>, <<ERROR_CODE_INTERNAL_SERVER_ERROR, 500>>},
        m \in Texts, d \in DetailsArgs}

\* the HTTP requests sent to the application
Methods == {"GET", "POST", "PUT", "DELETE"}
Paths ==
    { <<"api", "articles", "latest">>, <<"api", "articles", "nonexistent">>,
      <<"api", "articles">>, <<"api", "articles", "latest", "1">>,
      <<"health">>, <<"nonexistent">> }

\* the application contexts
Contexts == 1..MaxContexts

---------------------------------------------------------------------------
(* State machine *)

\* module import: no engine, no session factory, nothing called yet
Idle ==
    /\ SessionLocal = None
    /\ engine = None
    /\ engines = <<>>
    /\ appUrl = None
    /\ via = "none"
    /\ svc = None
    /\ fetched = None
    /\ storageFault = FALSE
    /\ warned = FALSE
    /\ inner = None
    /\ sessionGot = None
    /\ issued = <<>>
    /\ caught = None
    /\ logged = None
    /\ resp = None
    /\ prev = None
    /\ truncIn = None
    /\ truncOut = None
    /\ call = None
    /\ result = None
    /\ req = None
    /\ g = [c \in Contexts |-> None]
    /\ phase = [c \in Contexts |-> "none"]
    /\ exitPath = [c \in Contexts |-> "none"]
    /\ sessions = <<>>
    /\ got = [c \in Contexts |-> {}]
    /\ lastCall = [c \in Contexts |-> None]

Init == store \in Stores /\ Idle

\* create_app(config_name): the URL goes into the config of the new
\* application and init_db(app) runs
CreateApp(config_name) ==
    LET url == IF config_name = TESTING_ENV THEN TestUrl ELSE DevUrl
        db == init_db(engine, SessionLocal, engines, url)
    IN /\ IsNone(engine) => Len(engines) < MaxEngines
       /\ appUrl' = Some(url)
       /\ engine' = db.engine
       /\ engines' = db.engines
       /\ SessionLocal' = db.SessionLocal
       /\ UNCHANGED <<store, via, svc, fetched, storageFault, warned, inner, sessionGot,
                       issued, caught, logged, resp, prev, req, pureVars, dbVars>>

\* the application under test is created once, as the fixtures of the test
\* suite do
InitDb ==
    /\ IsNone(SessionLocal)
    /\ CreateApp(TESTING_ENV)

\* what one run of ArticleService.get_latest_articles leaves behind
ServiceEffects(db_session, executed, elapsed) ==
    LET session == get_session(db_session, SessionLocal)
        outcome == get_latest_articles(db_session, SessionLocal, executed, elapsed)
        tried == TryBlock(db_session, SessionLocal, executed, elapsed)
    IN /\ svc' = outcome
       /\ inner' = IF Raised(tried) THEN tried.exc ELSE None
       /\ sessionGot' = session
       /\ issued' = SessionCalls(db_session, SessionLocal, executed)
       /\ fetched' = IF Returned(session) /\ Returned(executed)
                     THEN Some(executed.value) ELSE None
       /\ storageFault' = (Raised(session) \/ Raised(executed))
       /\ warned' = (Returned(outcome) /\ check_performance(elapsed))

\* a direct call of ArticleService(db_session).get_latest_articles(), the
\* session injected or left to get_db
ServiceCall ==
    \E db_session \in {None, Some("session")}, executed \in Executions(store),
       elapsed \in Elapsed :
        /\ via' = "service"
        /\ ServiceEffects(db_session, executed, elapsed)
        /\ caught' = None
        /\ logged' = None
        /\ resp' = None
        /\ prev' = None
        /\ UNCHANGED <<store, SessionLocal, engineVars, req, pureVars, dbVars>>

\* what the view leaves behind, given the outcomes of get_db() and of the
\* service call
ViewEffects(db, served, utcnow) ==
    LET r == ViewTry(db, served)
    IN /\ prev' = IF via \in {"route", "patched"}
                  THEN [caught |-> caught, resp |-> resp] ELSE None
       /\ caught' = IF Raised(r) THEN r.exc ELSE None
       /\ logged' = IF Raised(r) THEN ViewLog(r.exc) ELSE None
       /\ resp' = latest_articles_view(db, served, utcnow)

\* the view get_latest_articles run for one request: get_db, the service
\* with the request's session, the response
LatestEndpoint ==
    \E executed \in Executions(store), elapsed \in Elapsed, utcnow \in Clock :
        LET db == get_db(SessionLocal)
        IN /\ via' = "route"
           /\ IF Raised(db)
              THEN /\ svc' = None
                   /\ fetched' = None
                   /\ storageFault' = FALSE
                   /\ warned' = FALSE
                   /\ inner' = None
                   /\ sessionGot' = None
                   /\ issued' = <<>>
                   /\ ViewEffects(db, None, utcnow)
              ELSE /\ ServiceEffects(Some(db.value), executed, elapsed)
                   /\ ViewEffects(db, get_latest_articles(Some(db.value), SessionLocal,
                                                          executed, elapsed),
                                  utcnow)

\* GET /api/articles/latest: get_db, the service with the request's session,
\* the response; close_db then closes the session on teardown
RouteRequest ==
    /\ LatestEndpoint
    /\ UNCHANGED <<store, SessionLocal, engineVars, req, pureVars, dbVars>>

\* GET /api/articles/latest with ArticleService.get_latest_articles patched
\* to raise e, as the endpoint tests do
PatchedRequest ==
    \E e \in PatchedErrors, utcnow \in Clock :
        LET db == get_db(SessionLocal)
        IN /\ via' = "patched"
           /\ svc' = IF Raised(db) THEN None ELSE Raise(e)
           /\ fetched' = None
           /\ storageFault' = FALSE
           /\ warned' = FALSE
           /\ inner' = None
           /\ sessionGot' = None
           /\ issued' = <<>>
           /\ ViewEffects(db, Raise(e), utcnow)
           /\ UNCHANGED <<store, SessionLocal, engineVars, req, pureVars, dbVars>>

\* a call of ArticleFormatter.truncate_summary
TruncateCall ==
    \E a \in TruncateArgs :
        /\ truncIn' = [summary |-> a[1], max_length |-> a[2]]
        /\ truncOut' = truncate_summary(a[1], a[2])
        /\ UNCHANGED <<store, SessionLocal, engineVars, via, svc, fetched, storageFault, warned, inner, sessionGot,
                       issued,
                       caught, logged, resp, prev, call, result, req, dbVars>>

\* one call per behaviour: a call reads store and SessionLocal and writes
\* neither, so a later call starts from the same program state
Next ==
    \/ InitDb
    \/ via = "none" /\ ServiceCall
    \/ via = "none" /\ RouteRequest
    \/ via = "none" /\ PatchedRequest

Spec == Init /\ [][Next]_vars

\* two requests in a row, over tables of at most one row
SeqStores == {S \in Stores : Cardinality(S) <= 1}

InitSeq == store \in SeqStores /\ Idle

NextSeq ==
    \/ InitDb
    \/ IsNone(prev) /\ RouteRequest
    \/ IsNone(prev) /\ PatchedRequest

SpecSeq == InitSeq /\ [][NextSeq]_vars

\* calls of the pure function truncate_summary
\* the result of the last truncate_summary call is given to truncate_summary
\* again, with the same max_length
TruncateAgainCall ==
    /\ ~IsNone(truncIn)
    /\ IsNone(call)
    /\ call' = [fn |-> "truncate_summary",
                args |-> <<Some(truncOut), truncIn.max_length>>]
    /\ result' = truncate_summary(Some(truncOut), truncIn.max_length)
    /\ UNCHANGED <<store, SessionLocal, engineVars, via, svc, fetched, storageFault,
                   warned, inner, sessionGot, issued, caught, logged, resp, prev,
                   truncIn, truncOut, req, dbVars>>

InitTruncate == store = {} /\ Idle

NextTruncate ==
    \/ IsNone(call) /\ TruncateCall
    \/ TruncateAgainCall

SpecTruncate == InitTruncate /\ [][NextTruncate]_vars

---------------------------------------------------------------------------
(* Direct calls of the helpers *)

\* a call of ArticleFormatter.format_article_for_api
FormatArticleCall ==
    \E row \in Catalogue :
        /\ call' = [fn |-> "format_article_for_api", args |-> <<row>>]
        /\ result' = format_article_for_api(row)
        /\ UNCHANGED <<store, SessionLocal, engineVars, via, svc, fetched, storageFault, warned, inner, sessionGot,
                       issued,
                       caught, logged, resp, prev, truncIn, truncOut, req, dbVars>>

\* a call of ArticleFormatter.format_articles_list
FormatListCall ==
    \E rows \in RowLists :
        /\ call' = [fn |-> "format_articles_list", args |-> <<rows>>]
        /\ result' = format_articles_list(rows)
        /\ UNCHANGED <<store, SessionLocal, engineVars, via, svc, fetched, storageFault, warned, inner, sessionGot,
                       issued,
                       caught, logged, resp, prev, truncIn, truncOut, req, dbVars>>

\* a call of format_datetime_to_utc_iso8601
NormalizeCall ==
    \E dt \in Timestamps :
        /\ call' = [fn |-> "format_datetime_to_utc_iso8601", args |-> <<dt>>]
        /\ result' = format_datetime_to_utc_iso8601(dt)
        /\ UNCHANGED <<store, SessionLocal, engineVars, via, svc, fetched, storageFault, warned, inner, sessionGot,
                       issued,
                       caught, logged, resp, prev, truncIn, truncOut, req, dbVars>>

\* a call of create_error_response
ErrorResponseCall ==
    \E a \in ErrorResponseArgs, utcnow \in Clock :
        /\ call' = [fn |-> "create_error_response", args |-> a, utcnow |-> utcnow]
        /\ result' = create_error_response(a[1], a[2], a[3], a[4], utcnow)
        /\ UNCHANGED <<store, SessionLocal, engineVars, via, svc, fetched, storageFault, warned, inner, sessionGot,
                       issued,
                       caught, logged, resp, prev, truncIn, truncOut, req, dbVars>>

\* no helper has been called yet
NoCall == IsNone(truncIn) /\ IsNone(call)

InitPure == store = {} /\ Idle

\* one call per behaviour: the helpers keep no state
NextPure ==
    \/ NoCall /\ TruncateCall
    \/ NoCall /\ FormatArticleCall
    \/ NoCall /\ FormatListCall
    \/ NoCall /\ NormalizeCall
    \/ NoCall /\ ErrorResponseCall

SpecPure == InitPure /\ [][NextPure]_vars

---------------------------------------------------------------------------
(* HTTP requests dispatched by the application create_app returns *)

\* one request: URL matching, then the view of the rule found or the
\* handling of the HTTP error that routing raised
HttpRequest ==
    \E method \in Methods, path \in Paths :
        LET m == MatchRequest(method, path)
        IN /\ req' = [method |-> method, path |-> path]
           /\ IF m.kind = "rule" /\ m.rule.endpoint = "articles.get_latest_articles"
              THEN LatestEndpoint
              ELSE \E utcnow \in Clock :
                    /\ via' = "http"
                    /\ svc' = None
                    /\ fetched' = None
                    /\ storageFault' = FALSE
                    /\ warned' = FALSE
                    /\ inner' = None
                    /\ sessionGot' = None
                    /\ issued' = <<>>
                    /\ caught' = None
                    /\ logged' = None
                    /\ prev' = None
                    /\ resp' = IF m.kind = "rule" THEN health_check
                               ELSE HandleHttpException(m.code, None, utcnow)
           /\ UNCHANGED <<store, SessionLocal, engineVars, pureVars, dbVars>>

\* create_app runs init_db before the application can be handed a request;
\* one request per behaviour
NextHttp ==
    \/ InitDb
    \/ via = "none" /\ ~IsNone(SessionLocal) /\ HttpRequest

SpecHttp == InitSeq /\ [][NextHttp]_vars

---------------------------------------------------------------------------
(* The session of a request, from get_db to the teardown of the context *)

\* how the view left its try block
ExitPathOf(r) ==
    IF Returned(r) THEN "success"
    ELSE IF IsDatabaseError(r.exc) THEN "DatabaseError"
    ELSE IF IsApplicationError(r.exc) THEN "ApplicationError"
    ELSE "Exception"

\* what the service answers the view: its own outcome over the table, or the
\* exception a patched service raises
ServedOutcomes(session) ==
    {get_latest_articles(Some(session), SessionLocal, executed, elapsed) :
        executed \in Executions(store), elapsed \in Elapsed}
    \cup {Raise(e) : e \in PatchedErrors}

\* a request arrives: its application context is pushed, g is empty
PushContext(c) ==
    /\ phase[c] = "none"
    /\ phase' = [phase EXCEPT ![c] = "pushed"]
    /\ UNCHANGED <<store, SessionLocal, engineVars, via, svc, fetched, storageFault, warned, inner, sessionGot,
                       issued,
                   caught, logged, resp, prev, req, pureVars, g, exitPath, sessions, got,
                   lastCall>>

\* the view get_latest_articles runs in context c up to its return:
\* get_db() fills g.db, the service uses that session
RunView(c) ==
    /\ phase[c] = "pushed"
    /\ ~IsNone(SessionLocal) /\ IsNone(g[c]) => Len(sessions) < MaxSessions
    /\ LET d == get_db_in_context(g[c], SessionLocal, Len(sessions) + 1)
       IN /\ g' = [g EXCEPT ![c] = d.slot]
          /\ SessionLocal' = d.factory
          /\ sessions' = IF d.slot # g[c]
                         THEN Append(sessions, NewSession(c, Val(d.factory).bind))
                         ELSE sessions
          /\ got' = IF Raised(d.outcome) THEN got
                    ELSE [got EXCEPT ![c] = @ \cup {d.outcome.value}]
          /\ \E served \in (IF Raised(d.outcome) THEN {None}
                            ELSE ServedOutcomes(d.outcome.value)) :
                exitPath' = [exitPath EXCEPT ![c] = ExitPathOf(ViewTry(d.outcome, served))]
    /\ lastCall' = [lastCall EXCEPT ![c] = Some([fn |-> "get_db", found |-> g[c]])]
    /\ phase' = [phase EXCEPT ![c] = "responded"]
    /\ UNCHANGED <<store, engineVars, via, svc, fetched, storageFault, warned, inner,
                   sessionGot, issued, caught, logged, resp, prev, req, pureVars>>

\* the context of c is popped: teardown_appcontext runs close_db
Teardown(c) ==
    /\ phase[c] = "responded"
    /\ LET t == close_db(g[c], sessions)
       IN /\ g' = [g EXCEPT ![c] = t.slot]
          /\ sessions' = t.sessions
    /\ got' = [got EXCEPT ![c] = {}]
    /\ lastCall' = [lastCall EXCEPT ![c] = Some([fn |-> "close_db", found |-> g[c]])]
    /\ phase' = [phase EXCEPT ![c] = "torn"]
    /\ UNCHANGED <<store, SessionLocal, engineVars, via, svc, fetched, storageFault, warned, inner, sessionGot,
                       issued,
                   caught, logged, resp, prev, req, pureVars, exitPath>>

NextDb ==
    \/ InitDb
    \/ \E c \in Contexts : PushContext(c)
    \/ \E c \in Contexts : RunView(c)
    \/ \E c \in Contexts : Teardown(c)

SpecDb == InitSeq /\ [][NextDb]_vars

---------------------------------------------------------------------------
(* get_db and close_db called directly inside a pushed context *)

\* code running in context c calls get_db()
GetDbCall(c) ==
    /\ phase[c] = "pushed"
    /\ ~IsNone(SessionLocal) /\ IsNone(g[c]) => Len(sessions) < MaxSessions
    /\ LET d == get_db_in_context(g[c], SessionLocal, Len(sessions) + 1)
       IN /\ g' = [g EXCEPT ![c] = d.slot]
          /\ SessionLocal' = d.factory
          /\ sessions' = IF d.slot # g[c]
                         THEN Append(sessions, NewSession(c, Val(d.factory).bind))
                         ELSE sessions
          /\ got' = IF Raised(d.outcome) THEN got
                    ELSE [got EXCEPT ![c] = @ \cup {d.outcome.value}]
    /\ lastCall' = [lastCall EXCEPT ![c] = Some([fn |-> "get_db", found |-> g[c]])]
    /\ UNCHANGED <<store, engineVars, via, svc, fetched, storageFault, warned, inner,
                   sessionGot, issued, caught, logged, resp, prev, req, pureVars,
                   phase, exitPath>>

\* code running in context c calls close_db(), as the teardown does
CloseDbCall(c) ==
    /\ phase[c] = "pushed"
    /\ LET t == close_db(g[c], sessions)
       IN /\ g' = [g EXCEPT ![c] = t.slot]
          /\ sessions' = t.sessions
    /\ got' = [got EXCEPT ![c] = {}]
    /\ lastCall' = [lastCall EXCEPT ![c] = Some([fn |-> "close_db", found |-> g[c]])]
    /\ UNCHANGED <<store, SessionLocal, engineVars, via, svc, fetched, storageFault,
                   warned, inner, sessionGot, issued, caught, logged, resp, prev, req,
                   pureVars, phase, exitPath>>

\* the context of c is popped without a view having run in it
PopContext(c) ==
    /\ phase[c] = "pushed"
    /\ LET t == close_db(g[c], sessions)
       IN /\ g' = [g EXCEPT ![c] = t.slot]
          /\ sessions' = t.sessions
    /\ got' = [got EXCEPT ![c] = {}]
    /\ lastCall' = [lastCall EXCEPT ![c] = Some([fn |-> "close_db", found |-> g[c]])]
    /\ phase' = [phase EXCEPT ![c] = "torn"]
    /\ UNCHANGED <<store, SessionLocal, engineVars, via, svc, fetched, storageFault,
                   warned, inner, sessionGot, issued, caught, logged, resp, prev, req,
                   pureVars, exitPath>>

InitScope == store = {} /\ Idle

NextScope ==
    \/ InitDb
    \/ \E c \in Contexts : PushContext(c)
    \/ \E c \in Contexts : GetDbCall(c)
    \/ \E c \in Contexts : CloseDbCall(c)
    \/ \E c \in Contexts : PopContext(c)

SpecScope == InitScope /\ [][NextScope]_vars

---------------------------------------------------------------------------
(* The engine of the process: create_app and dispose_db *)

\* dispose_db() runs
DisposeDb ==
    /\ LET db == dispose_db(engine, SessionLocal, engines)
       IN /\ engine' = db.engine
          /\ engines' = db.engines
          /\ SessionLocal' = db.SessionLocal
    /\ UNCHANGED <<store, appUrl, via, svc, fetched, storageFault, warned, inner,
                   sessionGot, issued, caught, logged, resp, prev, req, pureVars, dbVars>>

NextEngine ==
    \/ \E config_name \in ConfigNames : CreateApp(config_name)
    \/ DisposeDb
    \/ \E c \in Contexts : PushContext(c)
    \/ \E c \in Contexts : GetDbCall(c)
    \/ \E c \in Contexts : PopContext(c)

SpecEngine == InitScope /\ [][NextEngine]_vars

---------------------------------------------------------------------------
(* Properties *)

\* whether optional timestamp p is at or after optional timestamp q; a null
\* one is neither
PublishedGeq(p, q) ==
    /\ p # None
    /\ q # None
    /\ \/ p[1].wall > q[1].wall
       \/ p[1].wall = q[1].wall /\ p[1].us >= q[1].us

\* whether a row lacks a required field
LacksRequired(row) ==
    row.id = None \/ row.title = None \/ row.published_at = None \/ row.source_url = None

\* whether the last call fetched a row that lacks a required field
FetchedInvalid == fetched # None /\ \E i \in 1..Len(fetched[1]) : LacksRequired(fetched[1][i])

\* the first fetched row that lacks a required field
FirstInvalid ==
    fetched[1][CHOOSE i \in 1..Len(fetched[1]) :
        /\ LacksRequired(fetched[1][i])
        /\ \A j \in 1..(i - 1) : ~LacksRequired(fetched[1][j])]

\* the required fields of a row that are null
NullFields(row) == {f \in {"id", "title", "published_at", "source_url"} : row[f] = None}

\* the place of a required field in the order id, title, published_at,
\* source_url
FieldRank(f) ==
    CASE f = "id" -> 1 [] f = "title" -> 2 [] f = "published_at" -> 3 [] f = "source_url" -> 4

\* the error text that names a required field
FieldText(f) ==
    CASE f = "id" -> "Article ID cannot be None for API formatting"
      [] f = "title" -> "Article title cannot be None for API formatting"
      [] f = "published_at" -> "Article published_at cannot be None for API formatting"
      [] f = "source_url" -> "Article source_url cannot be None for API formatting"

\* whether the request went through the HTTP endpoint
ViaEndpoint == via \in {"route", "patched"}

\* C1: the list get_latest_articles returns has at most 5 elements and is
\* sorted by published_at descending.
C1_AtMostFiveSortedDesc ==
    Returned(svc) =>
        /\ Len(svc.value) <= 5
        /\ \A i \in 1..(Len(svc.value) - 1) :
              PublishedGeq(svc.value[i].published_at, svc.value[i + 1].published_at)

\* a table of six rows answered with five, with a tie and a strict step
C1_Witness ==
    /\ Returned(svc)
    /\ Cardinality(store) = 6
    /\ Len(svc.value) = 5
    /\ svc.value[1].published_at = svc.value[2].published_at
    /\ svc.value[2].published_at # svc.value[3].published_at

\* C2: over a store of n articles get_latest_articles returns exactly
\* min(5, n) articles, no stored article left out is published later than a
\* returned one, and over the empty store the endpoint answers 200 with
\* articles [] and count 0.
C2_LatestMinFiveOfStore ==
    /\ Returned(svc) =>
          /\ Len(svc.value) = Min(5, Cardinality(store))
          /\ \A r \in store :
                r.id \notin {svc.value[i].id : i \in 1..Len(svc.value)} =>
                    \A i \in 1..Len(svc.value) :
                        PublishedGeq(svc.value[i].published_at, r.published_at)
    /\ (via = "route" /\ store = {} /\ Returned(svc)) =>
          /\ svc.value = <<>>
          /\ resp.status_code = 200
          /\ resp.body = [status |-> "success", data |-> [articles |-> <<>>, count |-> 0]]

\* six stored rows, five returned, the one left out tied with the last returned
C2_Witness ==
    /\ Returned(svc)
    /\ Cardinality(store) = 6
    /\ Len(svc.value) = 5
    /\ \E r \in store :
          /\ r.id \notin {svc.value[i].id : i \in 1..5}
          /\ r.published_at = svc.value[5].published_at

\* C3: when the service raises DatabaseError during GET /api/articles/latest
\* the response is 503 with an error envelope of code DATABASE_UNAVAILABLE.
C3_DatabaseErrorIs503 ==
    (ViaEndpoint /\ Raised(svc) /\ svc.exc.class = "DatabaseError") =>
        /\ resp.status_code = 503
        /\ resp.body.status = "error"
        /\ resp.body.error.code = "DATABASE_UNAVAILABLE"

\* the real service raised DatabaseError for a failed query
C3_Witness ==
    /\ via = "route"
    /\ storageFault
    /\ Raised(svc)
    /\ svc.exc.class = "DatabaseError"
    /\ resp.status_code = 503

\* C4: every failure of the storage layer during get_latest_articles,
\* obtaining the session or executing the query, whatever it raises, makes
\* the call fail with DatabaseError.
C4_StorageFailureIsDatabaseError ==
    (via \in {"service", "route"} /\ storageFault) =>
        (Raised(svc) /\ svc.exc.class = "DatabaseError")

C6_NullFieldNoList ==
    FetchedInvalid => (Raised(svc) /\ ~Returned(svc))

\* four valid rows fetched before the invalid fifth one
C6_Witness ==
    /\ FetchedInvalid
    /\ Len(fetched[1]) = 5
    /\ \A i \in 1..4 : ~LacksRequired(fetched[1][i])
    /\ LacksRequired(fetched[1][5])
    /\ Raised(svc)

\* C7: an ApplicationError other than DatabaseError is answered with its own
\* status_code (400 for ValidationError, 404 for NotFoundError, 500 by
\* default) and code INTERNAL_SERVER_ERROR; an exception outside the family
\* with 500 and INTERNAL_SERVER_ERROR.
C7_OtherErrorsStatusAndCode ==
    (ViaEndpoint /\ caught # None /\ caught.class # "DatabaseError") =>
        /\ resp.body.status = "error"
        /\ resp.body.error.code = "INTERNAL_SERVER_ERROR"
        /\ caught.class \in {"ApplicationError", "ValidationError", "NotFoundError"} =>
              resp.status_code = caught.status_code
        /\ caught.class = "ValidationError" => resp.status_code = 400
        /\ caught.class = "NotFoundError" => resp.status_code = 404
        /\ caught.class \notin {"ApplicationError", "ValidationError", "NotFoundError"} =>
              resp.status_code = 500

\* a ValidationError answered with 400
C7_Witness ==
    /\ ViaEndpoint
    /\ caught # None
    /\ caught.class = "ValidationError"
    /\ resp.status_code = 400

\* the status code an exception carries, -1 when it carries none
CarriedStatus(e) == IF "status_code" \in DOMAIN e THEN e.status_code ELSE -1

\* an error body without its details.timestamp
WithoutTimestamp(body) ==
    [body EXCEPT !.error.details = {kv \in @ : kv[1] # "timestamp"}]

\* C8: two failing requests whose exceptions agree in class and status code
\* and differ in message get bodies that are identical apart from
\* error.details.timestamp, and no piece of the exception's text is in the
\* body.
C8_BodyIndependentOfMessage ==
    /\ (ViaEndpoint /\ caught # None) =>
          Range(caught.message) \cap Range(resp.body.error.message) = {}
    /\ (/\ prev # None
        /\ prev.caught # None
        /\ caught # None
        /\ prev.caught.class = caught.class
        /\ CarriedStatus(prev.caught) = CarriedStatus(caught)
        /\ prev.caught.message # caught.message) =>
          WithoutTimestamp(resp.body) = WithoutTimestamp(prev.resp.body)

\* two failing requests of one class with different messages, answered at
\* different times
C8_Witness ==
    /\ prev # None
    /\ prev.caught # None
    /\ caught # None
    /\ prev.caught.class = caught.class
    /\ CarriedStatus(prev.caught) = CarriedStatus(caught)
    /\ prev.caught.message # caught.message
    /\ resp.body # prev.resp.body

\* C9: in every success response data.count is the number of elements of
\* data.articles.
C9_CountIsLength ==
    (ViaEndpoint /\ resp # None /\ resp.body.status = "success") =>
        resp.body.data.count = Len(resp.body.data.articles)

\* a success response of three articles
C9_Witness ==
    /\ via = "route"
    /\ resp.body.status = "success"
    /\ Len(resp.body.data.articles) = 3
    /\ resp.body.data.count = 3

\* C10: for a non-null text s and max_length >= 0, truncate_summary gives s
\* unchanged when len(s) <= max_length and otherwise the first max_length
\* characters of s followed by "...", of length max_length + 3.
C10_TruncateSummary ==
    (truncIn # None /\ truncIn.summary # None /\ truncIn.max_length >= 0) =>
        LET s == truncIn.summary[1]
            m == truncIn.max_length
        IN IF Len(s) <= m THEN truncOut = s
           ELSE /\ Len(truncOut) = m + 3
                /\ \A i \in 1..m : truncOut[i] = s[i]
                /\ \A i \in (m + 1)..(m + 3) : truncOut[i] = "."
                /\ m = 100 => Len(truncOut) = 103

\* a text of 150 characters cut at the default 100
C10_Witness ==
    /\ truncIn # None
    /\ truncIn.summary # None
    /\ truncIn.max_length = 100
    /\ Len(truncIn.summary[1]) = 150
    /\ Len(truncOut) = 103

\* whether the last direct call was one of the helper fn
Called(fn) == call # None /\ call.fn = fn

\* C11: truncate_summary(None) is the empty text, and a row whose summary is
\* null and whose id, title, published_at and source_url are present is
\* formatted, not rejected, with summary_truncated the empty text.
C11_NullSummaryIsEmptyText ==
    /\ (truncIn # None /\ truncIn.summary = None) => truncOut = <<>>
    /\ (/\ Called("format_article_for_api")
        /\ call.args[1].summary = None
        /\ ~LacksRequired(call.args[1])) =>
          /\ Returned(result)
          /\ result.value.summary_truncated = <<>>

\* the row with id 1, whose summary is null, formatted
C11_Witness ==
    /\ Called("format_article_for_api")
    /\ call.args[1].summary = None
    /\ call.args[1].id = Some(1)
    /\ Returned(result)
    /\ result.value.summary_truncated = <<>>

\* the microsecond field an ISO text shows
IsoMicroseconds(iso) == IF iso.frac = None THEN 0 ELSE iso.frac[1]

\* C12: format_datetime_to_utc_iso8601(t) is the instant of t in UTC: a
\* naive t keeps its wall-clock reading, an aware t at offset d is moved by
\* -d, the sub-second part is that of t, and None gives None.
C12_SameInstantInUtc ==
    Called("format_datetime_to_utc_iso8601") =>
        LET t == call.args[1]
        IN IF t = None THEN result = None
           ELSE /\ result # None
                /\ result[1].secs = IF t[1].tz = None THEN t[1].wall
                                    ELSE t[1].wall - t[1].tz[1]
                /\ IsoMicroseconds(result[1]) = t[1].us
                /\ result[1].zone = "Z"

\* 15:30:00 at UTC+3 comes out as 12:30:00
C12_Witness ==
    /\ Called("format_datetime_to_utc_iso8601")
    /\ call.args[1] # None
    /\ call.args[1][1].wall = 15 * 3600 + 30 * 60
    /\ call.args[1][1].tz = Some(3 * 3600)
    /\ result[1].secs = 12 * 3600 + 30 * 60

\* C13: for every non-null timestamp, one with a non-zero sub-second part
\* included, the text has seconds precision, without fractional seconds,
\* and ends in the single character Z, never in +00:00.
C13_SecondsPrecisionZ ==
    (Called("format_datetime_to_utc_iso8601") /\ call.args[1] # None) =>
        /\ result[1].frac = None
        /\ result[1].zone = "Z"

\* C14: in every 200 response of GET /api/articles/latest the articles are
\* those the service returned, in its order, each with published_at turned
\* into the normaliser's text for the service's timestamp (UTC, ending in Z)
\* and with id, title, summary_truncated and source_url unchanged.
C14_PublishedAtNormalised ==
    (via = "route" /\ resp # None /\ resp.status_code = 200) =>
        /\ Returned(svc)
        /\ Len(resp.body.data.articles) = Len(svc.value)
        /\ \A i \in 1..Len(svc.value) :
              LET a == resp.body.data.articles[i]
                  r == svc.value[i]
              IN /\ a.published_at = format_datetime_to_utc_iso8601(r.published_at)
                 /\ a.published_at[1].zone = "Z"
                 /\ a.published_at[1].secs = r.published_at[1].wall
                 /\ a.id = r.id
                 /\ a.title = r.title
                 /\ a.summary_truncated = r.summary_truncated
                 /\ a.source_url = r.source_url

\* a 200 response of three articles with different timestamps, one of them
\* with microseconds
C14_Witness ==
    /\ via = "route"
    /\ resp # None
    /\ resp.status_code = 200
    /\ Len(resp.body.data.articles) = 3
    /\ resp.body.data.articles[1].published_at # resp.body.data.articles[3].published_at
    /\ \E i \in 1..3 : resp.body.data.articles[i].published_at[1].frac # None
    /\ \A i \in 1..3 : resp.body.data.articles[i].published_at[1].zone = "Z"

\* the success envelope {status: "success", data: ...}
IsSuccessEnvelope(b) ==
    /\ DOMAIN b = {"status", "data"}
    /\ b.status = "success"

\* the error envelope {status: "error", error: {code, message, details}}
IsErrorEnvelope(b) ==
    /\ DOMAIN b = {"status", "error"}
    /\ b.status = "error"
    /\ DOMAIN b.error = {"code", "message", "details"}

\* C15: every response the application emits, for GET /api/articles/latest,
\* for GET /health, for unmatched routes and for disallowed methods, has a
\* body that is the success envelope or the error envelope.
C15_EveryBodyIsEnvelope ==
    (req # None /\ resp # None) =>
        IsSuccessEnvelope(resp.body) \/ IsErrorEnvelope(resp.body)

\* whether a path lies under /api/articles
UnderArticles(path) == Len(path) >= 2 /\ path[1] = "api" /\ path[2] = "articles"

\* C16: a request to a path under /api/articles that matches no route is
\* answered with status 404 and an error envelope whose error.code is
\* RESOURCE_NOT_FOUND.
C16_UnmatchedPathIs404 ==
    (/\ req # None
     /\ UnderArticles(req.path)
     /\ \A r \in UrlMap : r.rule # req.path) =>
        /\ resp.status_code = 404
        /\ IsErrorEnvelope(resp.body)
        /\ resp.body.error.code = "RESOURCE_NOT_FOUND"

\* GET /api/articles/nonexistent answered by the application's 404 handler
C16_Witness ==
    /\ req # None
    /\ req.method = "GET"
    /\ req.path = <<"api", "articles", "nonexistent">>
    /\ resp.status_code = 404
    /\ resp.body.error.code = "RESOURCE_NOT_FOUND"
    /\ resp.body.error.message = <<"The requested ", "resource", " was not found">>

\* C17: a request to /api/articles/latest with a method that is not allowed
\* is answered with status 405 and an error envelope whose error.code is
\* METHOD_NOT_ALLOWED.
C17_DisallowedMethodIs405Envelope ==
    (/\ req # None
     /\ req.path = <<"api", "articles", "latest">>
     /\ req.method \notin {"GET", "HEAD", "OPTIONS"}) =>
        /\ resp.status_code = 405
        /\ IsErrorEnvelope(resp.body)
        /\ resp.body.error.code = "METHOD_NOT_ALLOWED"

\* C18: create_error_response puts the caller's details in error.details
\* whenever the caller gives one, an empty one included, and the default
\* {timestamp: <text ending in Z>} only when the caller gives none.
C18_DetailsOfCallerKept ==
    Called("create_error_response") =>
        LET details == call.args[4]
            placed == result.body.error.details
        IN IF details # None THEN placed = details[1]
           ELSE /\ Cardinality(placed) = 1
                /\ \A kv \in placed : kv[1] = "timestamp" /\ kv[2].zone = "Z"

\* C19: after the context of a request is torn down its g holds no session
\* and every session get_db made in it is closed, whichever way the view
\* left: success, DatabaseError, another ApplicationError, or an unexpected
\* exception.
C19_SessionClosedAtTeardown ==
    \A c \in Contexts :
        phase[c] = "torn" =>
            /\ exitPath[c] \in {"success", "DatabaseError", "ApplicationError", "Exception"}
            /\ g[c] = None
            /\ \A i \in 1..Len(sessions) : sessions[i].ctx = c => sessions[i].closed

\* two requests torn down, one left through DatabaseError and one through an
\* unexpected exception, each with its own session closed
C19_Witness ==
    \E c, d \in Contexts :
        /\ phase[c] = "torn"
        /\ phase[d] = "torn"
        /\ exitPath[c] = "DatabaseError"
        /\ exitPath[d] = "Exception"
        /\ \E i, j \in 1..Len(sessions) :
              /\ sessions[i].ctx = c
              /\ sessions[j].ctx = d
              /\ sessions[i].closed
              /\ sessions[j].closed

\* the text a summary is shown as: empty for None, itself up to 100
\* characters, else its first 100 characters and "..."
Shortened(summary) ==
    IF summary = None THEN <<>>
    ELSE IF Len(summary[1]) <= 100 THEN summary[1]
    ELSE SubSeq(summary[1], 1, 100) \o <<".", ".", ".">>

EndsWithDots(t) ==
    Len(t) >= 3 /\ \A i \in (Len(t) - 2)..Len(t) : t[i] = "."

\* the stored summary as a text, empty for null
StoredText(summary) == IF summary = None THEN <<>> ELSE summary[1]

ViaService == via \in {"service", "route"} /\ svc # None

\* the classes of the application error family
FamilyClasses == {"ApplicationError", "DatabaseError", "ValidationError", "NotFoundError"}

\* C22: an exception raised inside get_latest_articles that already is an
\* application error (DatabaseError, ValidationError, NotFoundError or
\* ApplicationError) reaches the caller with its class and status code
\* unchanged; an exception outside that family reaches it wrapped into an
\* application error.
C22_ApplicationErrorsPassUnchanged ==
    (ViaService /\ inner # None) =>
        /\ Raised(svc)
        /\ IF inner.class \in FamilyClasses
           THEN /\ svc.exc.class = inner.class
                /\ svc.exc.status_code = inner.status_code
           ELSE svc.exc.class \in FamilyClasses

\* C23: in every run of get_latest_articles the session's execute is called
\* at most once, exactly once whenever a session was obtained, always with
\* a SELECT; a failing execute is not repeated and nothing but execute is
\* called on the session (no write, flush or commit).
C23_OneSelectPerCall ==
    ViaService =>
        /\ Len(issued) <= 1
        /\ Returned(sessionGot) <=> Len(issued) = 1
        /\ \A i \in 1..Len(issued) :
              /\ issued[i].method = "execute"
              /\ issued[i].stmt.verb = "select"

\* a call whose execute failed: one execute, no second one
C23_Witness ==
    /\ ViaService
    /\ Returned(sessionGot)
    /\ storageFault
    /\ Raised(svc)
    /\ Len(issued) = 1
    /\ issued[1].stmt.verb = "select"

\* the list get_latest_articles is to return for fetched rows
ExpectedArticles(rows) ==
    [i \in 1..Len(rows) |->
        [id |-> rows[i].id, title |-> rows[i].title,
         summary_truncated |-> Shortened(rows[i].summary),
         published_at |-> rows[i].published_at,
         source_url |-> rows[i].source_url]]

\* C24: for the same fetched rows get_latest_articles returns the same list
\* whether or not the elapsed time exceeds the 50 ms threshold: the list is
\* determined by the rows alone, and a call that warns still returns it.
C24_SlowCallSameResult ==
    (ViaService /\ fetched # None /\ ~FetchedInvalid) =>
        /\ Returned(svc)
        /\ svc.value = ExpectedArticles(fetched[1])

\* a call over the threshold that warned and returned its two articles
C24_Witness ==
    /\ via = "service"
    /\ warned
    /\ Returned(svc)
    /\ Len(svc.value) = 2
    /\ svc.value = ExpectedArticles(fetched[1])

\* the process-wide state of database.py and the table
Globals == <<SessionLocal, engine, engines, appUrl, store>>

\* whether the step is taken by a request of context c alone: every other
\* context keeps its slot, its position and the sessions made in it
OnlyContextWrites(c) ==
    /\ \A d \in Contexts \ {c} :
          g'[d] = g[d] /\ phase'[d] = phase[d] /\ exitPath'[d] = exitPath[d]
    /\ \A i \in 1..Len(sessions) :
          sessions[i].ctx # c => sessions'[i] = sessions[i]
    /\ \A i \in 1..Len(sessions') : i > Len(sessions) => sessions'[i].ctx = c

\* C25: a step of a request (a context is pushed, its view runs get_db and
\* get_latest_articles, its teardown runs close_db) leaves the engine, the
\* session factory and the table as they were, under every interleaving of
\* the requests, and writes the slot of one context only, the request's own
C25_RequestsLeaveGlobalsAlone ==
    [][dbVars' # dbVars =>
          /\ Globals' = Globals
          /\ \E c \in Contexts :
                /\ phase[c] # "none" \/ phase'[c] # "none"
                /\ OnlyContextWrites(c)]_vars

\* two requests in flight at once, each holding its own session
C25_Witness ==
    /\ \A c \in Contexts : phase[c] = "responded" /\ ~IsNone(g[c])
    /\ \A c, d \in Contexts : c # d => g[c] # g[d]
    /\ ~IsNone(SessionLocal) /\ ~IsNone(engine)

\* C26: whenever _engine and _SessionLocal are both set, the factory is
\* bound to the engine _engine names, after any sequence of init_db and
\* dispose_db calls, and that engine is not disposed
C26_FactoryBoundToLiveEngine ==
    (~IsNone(engine) /\ ~IsNone(SessionLocal)) =>
        /\ Val(SessionLocal).bind = Val(engine)
        /\ ~engines[Val(SessionLocal).bind].disposed

\* C27: after create_app the engine get_db uses targets the DATABASE_URL of
\* the config of the application created last
C27_EngineTargetsAppUrl ==
    (~IsNone(appUrl) /\ ~IsNone(engine) /\ ~IsNone(SessionLocal)) =>
        /\ engines[Val(engine)].url = Val(appUrl)
        /\ engines[Val(SessionLocal).bind].url = Val(appUrl)

\* the sessions made in context c that close() has not run on
OpenSessionsOf(c) ==
    {i \in 1..Len(sessions) : sessions[i].ctx = c /\ ~sessions[i].closed}

\* C28: in one context every get_db between the start of the context and
\* its close_db returns the same session, the one in the slot, so at most
\* one open session was made for the context; and contexts alive at the same
\* time never receive the same session
C28_OneSessionPerContext ==
    /\ \A c \in Contexts :
          /\ Cardinality(got[c]) <= 1
          /\ got[c] \subseteq {i \in 1..Len(sessions) : g[c] = Some(i)}
          /\ Cardinality(OpenSessionsOf(c)) <= 1
          /\ \A i \in got[c] : sessions[i].ctx = c
    /\ \A c, d \in Contexts : c # d => got[c] \cap got[d] = {}

\* get_db ran again in a context that already held a session, while another
\* context holds a session of its own
C28_Witness ==
    \E c, d \in Contexts :
        /\ c # d
        /\ lastCall[c] = Some([fn |-> "get_db", found |-> g[c]])
        /\ ~IsNone(g[c])
        /\ got[d] # {}

\* C29: a closed session is in no slot and is never handed out, no session
\* is closed twice, after close_db the slot of the context is empty, and a
\* get_db that found the slot empty and returned left a session in it that
\* was never closed
C29_CloseDbIdempotent ==
    /\ \A c \in Contexts :
          /\ ~IsNone(g[c]) => ~sessions[Val(g[c])].closed
          /\ \A i \in got[c] : ~sessions[i].closed
          /\ (~IsNone(lastCall[c]) /\ Val(lastCall[c]).fn = "close_db") => IsNone(g[c])
          /\ (lastCall[c] = Some([fn |-> "get_db", found |-> None]) /\ got[c] # {})
             => ~IsNone(g[c]) /\ sessions[Val(g[c])].closes = 0
    /\ \A i \in 1..Len(sessions) :
          /\ sessions[i].closes <= 1
          /\ sessions[i].closed <=> sessions[i].closes = 1

\* close_db ran twice in a row in a context whose session the first of them
\* closed, and get_db ran after a close_db and made a second session
C29_Witness ==
    \E c, d \in Contexts :
        /\ lastCall[c] = Some([fn |-> "close_db", found |-> None])
        /\ \E i \in 1..Len(sessions) : sessions[i].ctx = c /\ sessions[i].closes = 1
        /\ lastCall[d] = Some([fn |-> "get_db", found |-> None])
        /\ \E i \in 1..Len(sessions) :
              sessions[i].ctx = d /\ sessions[i].closed /\ g[d] # Some(i) /\ ~IsNone(g[d])

\* C30: for max_length >= 0, truncate_summary applied to its own result with
\* the same max_length returns that result, for every text and for None
C30_TruncateIdempotent ==
    (/\ Called("truncate_summary")
     /\ call.args = <<Some(truncOut), truncIn.max_length>>
     /\ truncIn.max_length >= 0)
    => result = truncOut

\* a text of four characters cut at two gives five characters, which are cut
\* again at two
C30_Witness ==
    /\ Called("truncate_summary")
    /\ truncIn.summary # None
    /\ Len(truncIn.summary[1]) = 4
    /\ truncIn.max_length = 2
    /\ Len(truncOut) = 5
    /\ call.args = <<Some(truncOut), 2>>
    /\ result = truncOut


====
